---- MODULE Spec2Model ----
(***************************************************************************)
(* Buffer pool manager instance (src/buffer/buffer_pool_manager_instance   *)
(* .cpp, first translation unit of the file) together with the LRU         *)
(* replacer (src/buffer/lru_replacer.cpp).  Every public operation runs    *)
(* under the instance latch, so each one is a single atomic action.        *)
(***************************************************************************)
EXTENDS Integers, Sequences, FiniteSets, TLC

\* ---------------------------------------------------------------- bounds
PoolSize == 2          \* pool_size_ handed to the constructor
MaxPageId == 3         \* page ids 0 .. MaxPageId-1 are fetched / allocated
MaxPin == 2            \* callers hold at most MaxPin pins on one frame
MaxByte == 1           \* a page's bytes are one value of 0 .. MaxByte
NumInstances == 2      \* num_instances handed to the parallel manager's constructor
NumThreads == 2        \* threads that call one instance concurrently
MaxFrameId == 4        \* a replacer used on its own is given frame ids 0 .. MaxFrameId

\* ------------------------------------------------------------- constants
INVALID_PAGE_ID == -1
num_instances_ == 1
instance_index_ == 0

Frames == 0 .. (PoolSize - 1)
PageIds == 0 .. (MaxPageId - 1)
NoFrame == -1
Bytes == 0 .. MaxByte
Instances == 0 .. (NumInstances - 1)
\* the parallel manager hands out the first PoolSize + 1 ids of every instance
ParPageIds == 0 .. (NumInstances * (PoolSize + 1) - 1)
ReplacerFrames == 0 .. MaxFrameId
Threads == 0 .. (NumThreads - 1)
NoThread == -1

VARIABLES
  pages,          \* pages_[f] : page_id_, pin_count_, is_dirty_, data_
  page_table,     \* page_table_ : page id -> frame id
  free_list,      \* free_list_ : std::list<frame_id_t>
  replacer,       \* LRUReplacer list, head (index 1) = most recently added
  next_page_id,   \* next_page_id_
  disk,           \* contents of the disk manager, page id -> bytes
  last,           \* the call that returned last, with its result
  holds,          \* history: handles handed out on a frame and not yet unpinned
  written,        \* history: the WritePage calls <<page id, bytes>> of the last call
  saved,          \* history: {bytes P held} for the page P last unpinned dirty, {} for the others
  instances_,     \* ParallelBufferPoolManager::instances_ : index -> instance state
  next_index_,    \* ParallelBufferPoolManager::next_index_
  plast,          \* the parallel manager's call that returned last, with its result
  allocated,      \* history: the ids each instance's NewPage has handed out, in order
  rlast,          \* the call made on the replacer directly that returned last, with its result
  track_order,    \* history: the tracked frames in the order of the Unpin calls that added them
  latch_,         \* BufferPoolManagerInstance::latch_ : the thread that holds it, or NoThread
  rwlatch_,       \* Page::rwlatch_ of every frame : its writer and its readers
  pc,             \* where each thread is: idle, waiting for latch_, or inside an operation
  handles         \* the Page pointers each thread got and has not unpinned: <<page id, frame>>

vars == <<pages, page_table, free_list, replacer, next_page_id, disk, last, holds, written, saved,
          instances_, next_index_, plast, allocated, rlast, track_order,
          latch_, rwlatch_, pc, handles>>
pool == <<pages, page_table, free_list, replacer, next_page_id, disk>>
\* the history of a replacer used on its own
lru == <<rlast, track_order>>
\* the locks and the threads of an instance called concurrently
conc == <<latch_, rwlatch_, pc, handles>>
\* the parallel manager's state and history, and a single instance's
par == <<instances_, next_index_, plast, allocated, lru, conc>>
bpi == <<pages, page_table, free_list, replacer, next_page_id, last, holds, written, saved, lru, conc>>

\* ------------------------------------------------------------ sequences
SeqSet(s) == {s[i] : i \in 1 .. Len(s)}

RemoveFromSeq(s, x) == SelectSeq(s, LAMBDA y : y # x)

\* --------------------------------------------------------- LRU replacer
\* mutant: the replacer is built one frame smaller than the pool
capacity_Short == PoolSize - 1

capacity_ == PoolSize

\* mutant: the node is linked in before tail_, not after head_
AddToLast(r, f) == Append(r, f)

\* lines 93-104: the node is linked in right after head_
AddToFirst(r, f) == <<f>> \o r

RemoveLast(r) == SubSeq(r, 1, Len(r) - 1)

LRU_Size(r) == Len(r)

\* Victim: the frame at the tail of the list; NoFrame when cache_ is empty
LRU_VictimFrame(r) == IF Len(r) = 0 THEN NoFrame ELSE r[Len(r)]

LRU_Victim(r) == IF Len(r) = 0 THEN r ELSE RemoveLast(r)

\* mutant: Pin() leaves the frame in the list
LRU_Pin_Keeps(r, f) == r

LRU_Pin(r, f) == IF f \notin SeqSet(r) THEN r ELSE RemoveFromSeq(r, f)

\* mutant: a frame that is already in the list is moved to the front (the
\* commented-out lines 68-71)
LRU_Unpin_Refresh(r, f) ==
  IF f \in SeqSet(r) THEN AddToFirst(RemoveFromSeq(r, f), f)
  ELSE IF Len(r) >= capacity_ THEN AddToFirst(RemoveLast(r), f)
  ELSE AddToFirst(r, f)

LRU_Unpin(r, f) ==
  IF f \in SeqSet(r) THEN r
  ELSE IF Len(r) >= capacity_ THEN AddToFirst(RemoveLast(r), f)
  ELSE AddToFirst(r, f)

\* ----------------------------------------------------------- disk manager
ReadPage(d, pid) == d[pid]

WritePage(d, pid, bytes) == IF pid \in DOMAIN d THEN [d EXCEPT ![pid] = bytes] ELSE d

\* ------------------------------------------------------------ page table
Erase(pt, pid) == [p \in (DOMAIN pt) \ {pid} |-> pt[p]]

Insert(pt, pid, f) == [p \in (DOMAIN pt) \cup {pid} |-> IF p = pid THEN f ELSE pt[p]]

EmptyTable == [p \in {} |-> NoFrame]

\* op(page_id, is_dirty) returned ret (TRUE: true / a page, FALSE: false / nullptr);
\* page_id is the argument, for "new" the id handed back; victim is the frame
\* that Victim() handed out during the call, NoFrame if it handed out none
Call(op, pid, dirty, ret, victim) ==
  [op |-> op, page_id |-> pid, is_dirty |-> dirty, ret |-> ret, victim |-> victim]

\* the state of instance i after its constructor (lines 24-46), as the
\* parallel manager's constructor builds it (lines 637-640)
BPI_Init(i) ==
  [pages |-> [f \in Frames |->
                [page_id |-> INVALID_PAGE_ID, pin_count |-> 0, is_dirty |-> FALSE, data |-> 0]],
   page_table |-> EmptyTable,
   free_list |-> [k \in 1 .. PoolSize |-> k - 1],
   replacer |-> <<>>,
   next_page_id |-> i]

\* op(page_id) of the parallel manager returned ret; tried lists, for
\* new_page, the instances asked in order, each with its NewPage result
ParCall(op, pid, ret, tried) == [op |-> op, page_id |-> pid, ret |-> ret, tried |-> tried]

\* op(frame_id) of the replacer returned: for Victim, ret is its result and
\* frame_id the frame it stored in its out-parameter (NoFrame if none)
ReplacerCall(op, frame_id, ret) == [op |-> op, frame_id |-> frame_id, ret |-> ret]

\* a thread that is in no call of the instance
Idle == [at |-> "idle", op |-> "none", page_id |-> INVALID_PAGE_ID, is_dirty |-> FALSE, i |-> 0]

\* ------------------------------------------------------------------ Init
Init ==
  /\ pages = [f \in Frames |->
                [page_id |-> INVALID_PAGE_ID, pin_count |-> 0, is_dirty |-> FALSE, data |-> 0]]
  /\ page_table = EmptyTable
  /\ free_list = [i \in 1 .. PoolSize |-> i - 1]
  /\ replacer = <<>>
  /\ next_page_id = instance_index_
  /\ disk = [p \in PageIds \cup ParPageIds |-> 0]
  /\ last = Call("init", INVALID_PAGE_ID, FALSE, TRUE, NoFrame)
  /\ holds = [f \in Frames |-> 0]
  /\ written = <<>>
  /\ saved = [p \in PageIds |-> {}]
  /\ instances_ = [i \in Instances |-> BPI_Init(i)]
  /\ next_index_ = 0
  /\ plast = ParCall("init", INVALID_PAGE_ID, TRUE, <<>>)
  /\ allocated = [i \in Instances |-> <<>>]
  /\ rlast = ReplacerCall("init", NoFrame, TRUE)
  /\ track_order = <<>>
  /\ latch_ = NoThread
  /\ rwlatch_ = [f \in Frames |-> [writer |-> NoThread, readers |-> {}]]
  /\ pc = [t \in Threads |-> Idle]
  /\ handles = [t \in Threads |-> {}]

\* ------------------------------------------------- pieces of the handlers
\* mutant: AllocatePage() called before a frame is acquired
NextPageIdAllocFirst(acquired, n) == n + num_instances_

\* line 110: AllocatePage() is reached only once a frame has been acquired
NextPageIdAfterNew(acquired, n) == IF acquired THEN n + num_instances_ ELSE n

\* mutant: the frame's old key is left in the table
SwapTableEntry_NoErase(pt, old_pid, pid, f) == Insert(pt, pid, f)

\* lines 121-122 / 179-180: erase the frame's old key, publish the new one
SwapTableEntry(pt, old_pid, pid, f) == Insert(Erase(pt, old_pid), pid, f)

\* mutant: a hit hands the page out without counting the pin
PinPage_NoCount(p) == p

\* line 153: ret->pin_count_++
PinPage(p) == [p EXCEPT !.pin_count = @ + 1]

\* mutant: the flag is assigned, not or-ed
OrDirty_Assign(p, is_dirty) == is_dirty

\* line 236: p->is_dirty_ |= is_dirty
OrDirty(p, is_dirty) == p.is_dirty \/ is_dirty

\* mutant: off-by-one in the double-unpin test
UnpinRejected_Below(p) == p.pin_count < 0

\* line 238: if (p->pin_count_ <= 0) return false
UnpinRejected(p) == p.pin_count <= 0

\* mutant: every successful unpin registers the frame
TrackOnUnpin_Always(p) == TRUE

\* line 244: if (p->pin_count_ == 0) replacer_->Unpin(...)
TrackOnUnpin(p) == p.pin_count = 0

\* lines 113-118 / 171-176: write the old page back if the frame is dirty
WriteBack(d, p) == IF p.is_dirty THEN WritePage(d, p.page_id, p.data) ELSE d

\* the WritePage call that WriteBack makes, if any
WriteBackLog(p) == IF p.is_dirty THEN <<(<<p.page_id, p.data>>)>> ELSE <<>>

\* mutant: a pinned page is deleted like any other
DeleteRejected_Never(p) == FALSE

\* line 213: if (p->GetPinCount() > 0) return false
DeleteRejected(p) == p.pin_count > 0

\* mutant: the frame is zeroed but its dirty flag is kept
ResetDeleted_KeepsDirty(p) == [p EXCEPT !.data = 0]

\* lines 219-220: p->ResetMemory(); p->is_dirty_ = false (page_id_ and
\* pin_count_ are left as they are)
ResetDeleted(p) == [p EXCEPT !.data = 0, !.is_dirty = FALSE]

\* mutant: a flush writes the page whether or not it is dirty
FlushNeeded_Always(p) == TRUE

\* lines 62 / 75: if (page->IsDirty())
FlushNeeded(p) == p.is_dirty

\* --------------------------------------------------------------- actions
FlushPgImp(page_id) ==
  /\ IF page_id \notin DOMAIN page_table
     THEN /\ last' = Call("flush", page_id, FALSE, FALSE, NoFrame)
          /\ written' = <<>>
          /\ UNCHANGED <<pages, disk>>
     ELSE LET f == page_table[page_id]
              p == pages[f]
          IN /\ IF FlushNeeded(p)
                THEN /\ disk' = WritePage(disk, page_id, p.data)
                     /\ written' = <<(<<page_id, p.data>>)>>
                     /\ pages' = [pages EXCEPT ![f].is_dirty = FALSE]
                ELSE /\ written' = <<>>
                     /\ UNCHANGED <<pages, disk>>
             /\ last' = Call("flush", page_id, FALSE, TRUE, NoFrame)
  /\ UNCHANGED <<page_table, free_list, replacer, next_page_id, holds>>

RECURSIVE FlushFrames(_, _, _, _)
\* the loop of lines 74-82 from frame i on: <<pages, disk, WritePage calls>>
\* after it
FlushFrames(i, pg, d, w) ==
  IF i >= PoolSize THEN <<pg, d, w>>
  ELSE IF FlushNeeded(pg[i])
       THEN FlushFrames(i + 1, [pg EXCEPT ![i].is_dirty = FALSE],
                        WritePage(d, pg[i].page_id, pg[i].data),
                        Append(w, <<pg[i].page_id, pg[i].data>>))
       ELSE FlushFrames(i + 1, pg, d, w)

FlushAllPgsImp ==
  LET r == FlushFrames(0, pages, disk, <<>>)
  IN /\ pages' = r[1]
     /\ disk' = r[2]
     /\ written' = r[3]
     /\ last' = Call("flush_all", INVALID_PAGE_ID, FALSE, TRUE, NoFrame)
     /\ UNCHANGED <<page_table, free_list, replacer, next_page_id, holds>>

NewPgImp ==
  /\ next_page_id < MaxPageId
  /\ LET fromFree == free_list # <<>>
         acquired == fromFree \/ LRU_VictimFrame(replacer) # NoFrame
         frame_id == IF fromFree THEN Head(free_list) ELSE LRU_VictimFrame(replacer)
         new_page_id == next_page_id
     IN /\ next_page_id' = NextPageIdAfterNew(acquired, next_page_id)
        /\ IF ~acquired
           THEN /\ last' = Call("new", INVALID_PAGE_ID, FALSE, FALSE, NoFrame)
                /\ written' = <<>>
                /\ UNCHANGED <<pages, page_table, free_list, replacer, disk, holds>>
           ELSE LET ret == pages[frame_id]
                IN /\ free_list' = IF fromFree THEN Tail(free_list) ELSE free_list
                   /\ replacer' = IF fromFree THEN replacer ELSE LRU_Victim(replacer)
                   /\ disk' = WriteBack(disk, ret)
                   /\ written' = WriteBackLog(ret)
                   /\ page_table' = SwapTableEntry(page_table, ret.page_id, new_page_id, frame_id)
                   /\ pages' = [pages EXCEPT ![frame_id] =
                                  [page_id |-> new_page_id, pin_count |-> 1,
                                   is_dirty |-> FALSE, data |-> 0]]
                   /\ holds' = [holds EXCEPT ![frame_id] = 1]
                   /\ last' = Call("new", new_page_id, FALSE, TRUE, IF fromFree THEN NoFrame ELSE frame_id)

FetchPgImp(page_id) ==
  IF page_id \in DOMAIN page_table
  THEN LET f == page_table[page_id]
       IN /\ pages[f].pin_count < MaxPin
          /\ replacer' = LRU_Pin(replacer, f)
          /\ pages' = [pages EXCEPT ![f] = PinPage(@)]
          /\ holds' = [holds EXCEPT ![f] = @ + 1]
          /\ last' = Call("fetch", page_id, FALSE, TRUE, NoFrame)
          /\ written' = <<>>
          /\ UNCHANGED <<page_table, free_list, next_page_id, disk>>
  ELSE LET fromFree == free_list # <<>>
           acquired == fromFree \/ LRU_VictimFrame(replacer) # NoFrame
           frame_id == IF fromFree THEN Head(free_list) ELSE LRU_VictimFrame(replacer)
       IN IF ~acquired
          THEN /\ last' = Call("fetch", page_id, FALSE, FALSE, NoFrame)
               /\ written' = <<>>
               /\ UNCHANGED <<pages, page_table, free_list, replacer, next_page_id, disk, holds>>
          ELSE LET ret == pages[frame_id]
                   d1 == WriteBack(disk, ret)
               IN /\ free_list' = IF fromFree THEN Tail(free_list) ELSE free_list
                  /\ replacer' = IF fromFree THEN replacer ELSE LRU_Victim(replacer)
                  /\ disk' = d1
                  /\ written' = WriteBackLog(ret)
                  /\ page_table' = SwapTableEntry(page_table, ret.page_id, page_id, frame_id)
                  /\ pages' = [pages EXCEPT ![frame_id] =
                                 [page_id |-> page_id, pin_count |-> 1,
                                  is_dirty |-> FALSE, data |-> ReadPage(d1, page_id)]]
                  /\ holds' = [holds EXCEPT ![frame_id] = 1]
                  /\ last' = Call("fetch", page_id, FALSE, TRUE, IF fromFree THEN NoFrame ELSE frame_id)
                  /\ UNCHANGED next_page_id

DeletePgImp(page_id) ==
  /\ IF page_id \notin DOMAIN page_table
     THEN /\ last' = Call("delete", page_id, FALSE, TRUE, NoFrame)
          /\ UNCHANGED <<pages, page_table, free_list, replacer>>
     ELSE LET frame_id == page_table[page_id]
              p == pages[frame_id]
          IN IF DeleteRejected(p)
             THEN /\ last' = Call("delete", page_id, FALSE, FALSE, NoFrame)
                  /\ UNCHANGED <<pages, page_table, free_list, replacer>>
             ELSE /\ page_table' = Erase(page_table, page_id)
                  /\ replacer' = LRU_Pin(replacer, frame_id)
                  /\ pages' = [pages EXCEPT ![frame_id] = ResetDeleted(p)]
                  /\ free_list' = Append(free_list, frame_id)
                  /\ last' = Call("delete", page_id, FALSE, TRUE, NoFrame)
  /\ written' = <<>>
  /\ UNCHANGED <<next_page_id, disk, holds>>

\* UnpinPgImp on a pool whose frames are pg
UnpinFrom(pg, page_id, is_dirty) ==
  /\ IF page_id \notin DOMAIN page_table
     THEN /\ last' = Call("unpin", page_id, is_dirty, FALSE, NoFrame)
          /\ pages' = pg
          /\ UNCHANGED <<replacer, holds>>
     ELSE LET f == page_table[page_id]
              p1 == [pg[f] EXCEPT !.is_dirty = OrDirty(pg[f], is_dirty)]
              p2 == [p1 EXCEPT !.pin_count = @ - 1]
          IN IF UnpinRejected(p1)
             THEN /\ pages' = [pg EXCEPT ![f] = p1]
                  /\ last' = Call("unpin", page_id, is_dirty, FALSE, NoFrame)
                  /\ UNCHANGED <<replacer, holds>>
             ELSE /\ pages' = [pg EXCEPT ![f] = p2]
                  /\ replacer' = IF TrackOnUnpin(p2) THEN LRU_Unpin(replacer, f) ELSE replacer
                  /\ holds' = [holds EXCEPT ![f] = @ - 1]
                  /\ last' = Call("unpin", page_id, is_dirty, TRUE, NoFrame)
  /\ written' = <<>>
  /\ UNCHANGED <<page_table, free_list, next_page_id, disk>>

UnpinPgImp(page_id, is_dirty) == UnpinFrom(pages, page_id, is_dirty)

\* a caller that holds a handle on frame f stores bytes through GetData()
WriteData(f, bytes) ==
  /\ holds[f] > 0
  /\ pages' = [pages EXCEPT ![f].data = bytes]
  /\ last' = Call("write", pages[f].page_id, FALSE, TRUE, NoFrame)
  /\ written' = <<>>
  /\ UNCHANGED <<page_table, free_list, replacer, next_page_id, disk, holds>>

Next ==
  \/ \E page_id \in PageIds : FetchPgImp(page_id) /\ UNCHANGED <<saved, par>>
  \/ NewPgImp /\ UNCHANGED <<saved, par>>
  \/ \E page_id \in PageIds, is_dirty \in BOOLEAN : UnpinPgImp(page_id, is_dirty) /\ UNCHANGED <<saved, par>>
  \/ \E page_id \in PageIds : DeletePgImp(page_id) /\ UNCHANGED <<saved, par>>
  \/ \E page_id \in PageIds : FlushPgImp(page_id) /\ UNCHANGED <<saved, par>>
  \/ FlushAllPgsImp /\ UNCHANGED <<saved, par>>

Spec == Init /\ [][Next]_vars

\* the same operations with callers that also write the pages they hold
\* callers of this specification take one handle on a page at a time
NotHeld(page_id) ==
  page_id \in DOMAIN page_table => pages[page_table[page_id]].pin_count = 0

NextData ==
  \/ \E page_id \in PageIds : NotHeld(page_id) /\ FetchPgImp(page_id) /\ UNCHANGED <<saved, par>>
  \/ NewPgImp /\ UNCHANGED <<saved, par>>
  \/ \E page_id \in PageIds, is_dirty \in BOOLEAN : UnpinPgImp(page_id, is_dirty) /\ UNCHANGED <<saved, par>>
  \/ \E page_id \in PageIds : DeletePgImp(page_id) /\ UNCHANGED <<saved, par>>
  \/ \E page_id \in PageIds : FlushPgImp(page_id) /\ UNCHANGED <<saved, par>>
  \/ FlushAllPgsImp /\ UNCHANGED <<saved, par>>
  \/ \E f \in Frames, bytes \in Bytes : WriteData(f, bytes) /\ UNCHANGED <<saved, par>>

SpecData == Init /\ [][NextData]_vars

\* a caller that holds the only handle on resident page page_id stores
\* bytes in it and gives it back with unpin(page_id, true)
WriteAndUnpin(page_id, bytes) ==
  /\ page_id \in DOMAIN page_table
  /\ holds[page_table[page_id]] = 1
  /\ UnpinFrom([pages EXCEPT ![page_table[page_id]].data = bytes], page_id, TRUE)

\* saved after the call recorded in last': a successful unpin(P, true)
\* makes P the page on record, with the bytes it holds; a new_page that
\* hands out P and a fetch of P that misses (the round trip is over) end
\* the record
SavedAfter ==
  [q \in PageIds |->
     IF last'.op = "unpin" /\ last'.ret /\ last'.is_dirty
     THEN IF q = last'.page_id THEN {pages'[page_table[q]].data} ELSE {}
     ELSE IF q # last'.page_id THEN saved[q]
     ELSE IF last'.op = "new" THEN {}
     ELSE IF last'.op = "fetch" /\ last'.ret /\ q \notin DOMAIN page_table THEN {}
     ELSE saved[q]]

\* callers that report every write (a page is written and unpinned dirty in
\* one step, and otherwise unpinned clean) and delete no page
NextTrip ==
  \/ \E page_id \in PageIds : NotHeld(page_id) /\ FetchPgImp(page_id) /\ saved' = SavedAfter /\ UNCHANGED par
  \/ NewPgImp /\ saved' = SavedAfter /\ UNCHANGED par
  \/ \E page_id \in PageIds : UnpinPgImp(page_id, FALSE) /\ saved' = SavedAfter /\ UNCHANGED par
  \/ \E page_id \in PageIds, bytes \in Bytes : WriteAndUnpin(page_id, bytes) /\ saved' = SavedAfter /\ UNCHANGED par
  \/ \E page_id \in PageIds : FlushPgImp(page_id) /\ saved' = SavedAfter /\ UNCHANGED par
  \/ FlushAllPgsImp /\ saved' = SavedAfter /\ UNCHANGED par

SpecTrip == Init /\ [][NextTrip]_vars

\* ------------------------------------------- parallel buffer pool manager
\* The operations of one instance as functions of its state b and of the
\* disk d the instances share: the same code as the actions above, run by
\* the instance the parallel manager picks.  Each yields the instance's new
\* state, the new disk and the value returned.

\* mutant: the counter is incremented by one
BPI_AllocatePage_ByOne(n) == n + 1

\* lines 251-257: next_page_id_ += num_instances_
BPI_AllocatePage(n) == n + NumInstances

BPI_NewPage(b, d) ==
  LET fromFree == b.free_list # <<>>
      acquired == fromFree \/ LRU_VictimFrame(b.replacer) # NoFrame
      frame_id == IF fromFree THEN Head(b.free_list) ELSE LRU_VictimFrame(b.replacer)
      new_page_id == b.next_page_id
  IN IF ~acquired
     THEN [bpi |-> b, disk |-> d, ret |-> FALSE, page_id |-> INVALID_PAGE_ID]
     ELSE LET ret == b.pages[frame_id]
          IN [bpi |-> [pages |-> [b.pages EXCEPT ![frame_id] =
                                    [page_id |-> new_page_id, pin_count |-> 1,
                                     is_dirty |-> FALSE, data |-> 0]],
                       page_table |-> SwapTableEntry(b.page_table, ret.page_id, new_page_id, frame_id),
                       free_list |-> IF fromFree THEN Tail(b.free_list) ELSE b.free_list,
                       replacer |-> IF fromFree THEN b.replacer ELSE LRU_Victim(b.replacer),
                       next_page_id |-> BPI_AllocatePage(b.next_page_id)],
              disk |-> WriteBack(d, ret),
              ret |-> TRUE,
              page_id |-> new_page_id]

BPI_FetchPage(b, d, page_id) ==
  IF page_id \in DOMAIN b.page_table
  THEN LET f == b.page_table[page_id]
       IN [bpi |-> [b EXCEPT !.replacer = LRU_Pin(b.replacer, f),
                             !.pages = [b.pages EXCEPT ![f] = PinPage(@)]],
           disk |-> d, ret |-> TRUE]
  ELSE LET fromFree == b.free_list # <<>>
           acquired == fromFree \/ LRU_VictimFrame(b.replacer) # NoFrame
           frame_id == IF fromFree THEN Head(b.free_list) ELSE LRU_VictimFrame(b.replacer)
       IN IF ~acquired
          THEN [bpi |-> b, disk |-> d, ret |-> FALSE]
          ELSE LET ret == b.pages[frame_id]
                   d1 == WriteBack(d, ret)
               IN [bpi |-> [b EXCEPT
                              !.pages = [b.pages EXCEPT ![frame_id] =
                                           [page_id |-> page_id, pin_count |-> 1,
                                            is_dirty |-> FALSE, data |-> ReadPage(d1, page_id)]],
                              !.page_table = SwapTableEntry(b.page_table, ret.page_id, page_id, frame_id),
                              !.free_list = IF fromFree THEN Tail(b.free_list) ELSE b.free_list,
                              !.replacer = IF fromFree THEN b.replacer ELSE LRU_Victim(b.replacer)],
                   disk |-> d1, ret |-> TRUE]

BPI_UnpinPage(b, d, page_id, is_dirty) ==
  IF page_id \notin DOMAIN b.page_table
  THEN [bpi |-> b, disk |-> d, ret |-> FALSE]
  ELSE LET f == b.page_table[page_id]
           p1 == [b.pages[f] EXCEPT !.is_dirty = OrDirty(b.pages[f], is_dirty)]
           p2 == [p1 EXCEPT !.pin_count = @ - 1]
       IN IF UnpinRejected(p1)
          THEN [bpi |-> [b EXCEPT !.pages = [b.pages EXCEPT ![f] = p1]], disk |-> d, ret |-> FALSE]
          ELSE [bpi |-> [b EXCEPT !.pages = [b.pages EXCEPT ![f] = p2],
                                  !.replacer = IF TrackOnUnpin(p2) THEN LRU_Unpin(b.replacer, f)
                                               ELSE b.replacer],
                disk |-> d, ret |-> TRUE]

BPI_DeletePage(b, d, page_id) ==
  IF page_id \notin DOMAIN b.page_table
  THEN [bpi |-> b, disk |-> d, ret |-> TRUE]
  ELSE LET frame_id == b.page_table[page_id]
           p == b.pages[frame_id]
       IN IF DeleteRejected(p)
          THEN [bpi |-> b, disk |-> d, ret |-> FALSE]
          ELSE [bpi |-> [b EXCEPT !.page_table = Erase(b.page_table, page_id),
                                  !.replacer = LRU_Pin(b.replacer, frame_id),
                                  !.pages = [b.pages EXCEPT ![frame_id] = ResetDeleted(p)],
                                  !.free_list = Append(b.free_list, frame_id)],
                disk |-> d, ret |-> TRUE]

BPI_FlushPage(b, d, page_id) ==
  IF page_id \notin DOMAIN b.page_table
  THEN [bpi |-> b, disk |-> d, ret |-> FALSE]
  ELSE LET f == b.page_table[page_id]
           p == b.pages[f]
       IN IF FlushNeeded(p)
          THEN [bpi |-> [b EXCEPT !.pages = [b.pages EXCEPT ![f].is_dirty = FALSE]],
                disk |-> WritePage(d, page_id, p.data), ret |-> TRUE]
          ELSE [bpi |-> b, disk |-> d, ret |-> TRUE]

BPI_FlushAllPages(b, d) ==
  LET r == FlushFrames(0, b.pages, d, <<>>)
  IN [bpi |-> [b EXCEPT !.pages = r[1]], disk |-> r[2], ret |-> TRUE]

\* mutant: the page id is divided, not reduced, by the number of instances
GetBufferPoolManager_Div(page_id) == (page_id \div NumInstances) % NumInstances

\* lines 651-658: page_id % instances_.size()
GetBufferPoolManager(page_id) == page_id % NumInstances

\* mutant: the loop gives up one instance early
LoopContinues_Short(index) == index < NumInstances - 1

\* line 690: index < num_instance_
LoopContinues(index) == index < NumInstances

\* line 693: next_index_ = (next_index_ + 1) % num_instance_
BumpIndex(c) == (c + 1) % NumInstances

RECURSIVE NewPgLoop(_, _, _, _, _)
\* the loop of lines 690-698 from iteration index on, with the instances,
\* the disk, the cursor and the tries made so far
NewPgLoop(index, insts, d, cursor, tried) ==
  IF ~LoopContinues(index)
  THEN [instances |-> insts, disk |-> d, next_index |-> cursor, tried |-> tried,
        ret |-> FALSE, page_id |-> INVALID_PAGE_ID]
  ELSE LET r == BPI_NewPage(insts[cursor], d)
           t == Append(tried, [inst |-> cursor, ok |-> r.ret])
           i1 == [insts EXCEPT ![cursor] = r.bpi]
       IN IF r.ret
          THEN [instances |-> i1, disk |-> r.disk, next_index |-> BumpIndex(cursor),
                tried |-> t, ret |-> TRUE, page_id |-> r.page_id]
          ELSE NewPgLoop(index + 1, i1, r.disk, BumpIndex(cursor), t)

Par_NewPgImp ==
  /\ LET r == NewPgLoop(0, instances_, disk, next_index_, <<>>)
     IN /\ r.ret => r.page_id \in ParPageIds
        /\ instances_' = r.instances
        /\ disk' = r.disk
        /\ next_index_' = r.next_index
        /\ plast' = ParCall("new", r.page_id, r.ret, r.tried)
        /\ allocated' = IF r.ret
                        THEN [allocated EXCEPT ![r.tried[Len(r.tried)].inst] = Append(@, r.page_id)]
                        ELSE allocated
  /\ UNCHANGED bpi

\* a routed operation: the instance GetBufferPoolManager names runs it
Routed(op, page_id, r) ==
  /\ instances_' = [instances_ EXCEPT ![GetBufferPoolManager(page_id)] = r.bpi]
  /\ disk' = r.disk
  /\ plast' = ParCall(op, page_id, r.ret, <<>>)
  /\ UNCHANGED <<next_index_, allocated, bpi>>

Par_FetchPgImp(page_id) ==
  LET b == instances_[GetBufferPoolManager(page_id)]
  IN /\ page_id \in DOMAIN b.page_table => b.pages[b.page_table[page_id]].pin_count = 0
     /\ Routed("fetch", page_id, BPI_FetchPage(b, disk, page_id))

Par_UnpinPgImp(page_id, is_dirty) ==
  Routed("unpin", page_id,
         BPI_UnpinPage(instances_[GetBufferPoolManager(page_id)], disk, page_id, is_dirty))

Par_FlushPgImp(page_id) ==
  Routed("flush", page_id,
         BPI_FlushPage(instances_[GetBufferPoolManager(page_id)], disk, page_id))

Par_DeletePgImp(page_id) ==
  Routed("delete", page_id,
         BPI_DeletePage(instances_[GetBufferPoolManager(page_id)], disk, page_id))

RECURSIVE FlushInstances(_, _, _)
\* the loop of lines 711-713 from instance i on: <<instances, disk>> after it
FlushInstances(i, insts, d) ==
  IF i >= NumInstances THEN <<insts, d>>
  ELSE LET r == BPI_FlushAllPages(insts[i], d)
       IN FlushInstances(i + 1, [insts EXCEPT ![i] = r.bpi], r.disk)

Par_FlushAllPgsImp ==
  LET r == FlushInstances(0, instances_, disk)
  IN /\ instances_' = r[1]
     /\ disk' = r[2]
     /\ plast' = ParCall("flush_all", INVALID_PAGE_ID, TRUE, <<>>)
     /\ UNCHANGED <<next_index_, allocated, bpi>>

\* lines 646-649: instances_.size() * each_pool_size_
GetPoolSize == NumInstances * PoolSize

\* callers of the parallel manager fetch the pages it has created, take
\* one handle on a page at a time, unpin with is_dirty = false and try to
\* delete only pages that are still held (what a successful delete does to
\* an instance is checked on the single instance)
Created(page_id) == \E i \in Instances : page_id \in SeqSet(allocated[i])

Held(page_id) ==
  LET b == instances_[GetBufferPoolManager(page_id)]
  IN page_id \in DOMAIN b.page_table /\ b.pages[b.page_table[page_id]].pin_count > 0

NextPar ==
  \/ Par_NewPgImp
  \/ \E page_id \in ParPageIds : Created(page_id) /\ Par_FetchPgImp(page_id)
  \/ \E page_id \in ParPageIds, is_dirty \in {FALSE} : Par_UnpinPgImp(page_id, is_dirty)
  \/ \E page_id \in ParPageIds : Held(page_id) /\ Par_DeletePgImp(page_id)
  \/ \E page_id \in ParPageIds : Par_FlushPgImp(page_id)
  \/ Par_FlushAllPgsImp

SpecPar == Init /\ [][NextPar]_vars

\* ------------------------------------------------ the replacer on its own
\* Callers of LRUReplacer other than the instance: any of Victim, Pin and
\* Unpin, on any frame id, in any order.
alone == <<pages, page_table, free_list, next_page_id, disk, last, holds, written, saved,
           instances_, next_index_, plast, allocated, conc>>

Replacer_Victim ==
  /\ replacer' = LRU_Victim(replacer)
  /\ rlast' = ReplacerCall("victim", LRU_VictimFrame(replacer), LRU_VictimFrame(replacer) # NoFrame)
  /\ track_order' = RemoveFromSeq(track_order, LRU_VictimFrame(replacer))
  /\ UNCHANGED alone

Replacer_Pin(frame_id) ==
  /\ replacer' = LRU_Pin(replacer, frame_id)
  /\ rlast' = ReplacerCall("pin", frame_id, TRUE)
  /\ track_order' = RemoveFromSeq(track_order, frame_id)
  /\ UNCHANGED alone

\* the history gains frame_id at its young end when the call finds it
\* untracked, and keeps the frames that are tracked after the call
Replacer_Unpin(frame_id) ==
  /\ replacer' = LRU_Unpin(replacer, frame_id)
  /\ rlast' = ReplacerCall("unpin", frame_id, TRUE)
  /\ track_order' = SelectSeq(IF frame_id \in SeqSet(track_order) THEN track_order
                              ELSE Append(track_order, frame_id),
                              LAMBDA f : f \in SeqSet(replacer'))
  /\ UNCHANGED alone

NextLRU ==
  \/ Replacer_Victim
  \/ \E frame_id \in ReplacerFrames : Replacer_Pin(frame_id)
  \/ \E frame_id \in ReplacerFrames : Replacer_Unpin(frame_id)

SpecLRU == Init /\ [][NextLRU]_vars

\* -------------------------------------------- one instance, several threads
\* Every public operation takes latch_ on entry (lines 55, 73, 98, 144, 200,
\* 226) and keeps it until it returns, so its effect on the pool is the
\* action above, taken when the operation holds every lock it asks for.
\* Inside, flush, flush_all, new_page and a fetch miss ask for the latch of
\* a frame (lines 63, 76, 114, 172, 184).  The replacer's own latch_ is
\* taken and given back inside Victim, Pin and Unpin, which call nothing
\* while they hold it: it is part of the step that runs the operation.
others == <<saved, instances_, next_index_, plast, allocated, lru>>

\* the frame NewPgImp / FetchPgImp take: the head of the free list, else
\* the replacer's victim, else none
AcquiredFrame == IF free_list # <<>> THEN Head(free_list) ELSE LRU_VictimFrame(replacer)

NoLatch == <<NoFrame, "none">>

\* the frame latch the operation c asks for next, with its mode
NeededLatch(c) ==
  CASE c.op = "flush" ->
         IF c.page_id \in DOMAIN page_table /\ FlushNeeded(pages[page_table[c.page_id]])
         THEN <<page_table[c.page_id], "W">> ELSE NoLatch
    [] c.op = "flush_all" ->
         IF c.i \in Frames /\ FlushNeeded(pages[c.i]) THEN <<c.i, "W">> ELSE NoLatch
    [] c.op = "fetch" ->
         IF c.page_id \in DOMAIN page_table \/ AcquiredFrame = NoFrame THEN NoLatch
         ELSE <<AcquiredFrame, IF pages[AcquiredFrame].is_dirty THEN "W" ELSE "R">>
    [] OTHER -> NoLatch

\* the threads whose hold on frame f's latch keeps a request of this mode
\* waiting: a writer waits for everybody, a reader for the writer
Holders(f, mode) ==
  IF mode = "W" THEN rwlatch_[f].readers \cup ({rwlatch_[f].writer} \ {NoThread})
  ELSE {rwlatch_[f].writer} \ {NoThread}

Blockers(c) == IF NeededLatch(c) = NoLatch THEN {} ELSE Holders(NeededLatch(c)[1], NeededLatch(c)[2])

HoldsLatch(t, f) == rwlatch_[f].writer = t \/ t \in rwlatch_[f].readers

\* the calls a thread makes: it unpins pages it holds a pointer to, takes
\* one pointer to a page at a time, and while it holds the latch of a frame
\* it calls only fetch, or unpin of another page
MayInvoke(t, c) ==
  /\ c.op = "fetch" => /\ \A h \in handles[t] : h[1] # c.page_id
                       /\ Cardinality(handles[t]) < PoolSize
  /\ c.op = "unpin" => \E h \in handles[t] : h[1] = c.page_id /\ ~HoldsLatch(t, h[2])
  /\ (\E f \in Frames : HoldsLatch(t, f)) => c.op \in {"fetch", "unpin"}

\* the threads call the operations the frame latches are about: fetch (its
\* misses evict), unpin, flush and flush_all (InvokeFlushAll); new_page asks
\* for the locks a fetch miss asks for and delete for those of unpin
Requests ==
  {[at |-> "lock", op |-> op, page_id |-> p, is_dirty |-> FALSE, i |-> 0] :
     op \in {"fetch", "flush"}, p \in PageIds}
  \cup {[at |-> "lock", op |-> "unpin", page_id |-> p, is_dirty |-> d, i |-> 0] :
          p \in PageIds, d \in BOOLEAN}

\* a fetch that hits stays within the pins the model counts
WithinPins(c) ==
  (c.op = "fetch" /\ c.page_id \in DOMAIN page_table)
  => pages[page_table[c.page_id]].pin_count < MaxPin

\* the pointers thread t holds once its operation c has returned
HandlesAfter(t, c) ==
  IF c.op = "fetch" /\ last'.ret
  THEN handles[t] \cup {<<last'.page_id, page_table'[last'.page_id]>>}
  ELSE IF c.op = "unpin" /\ last'.ret
  THEN IF <<c.page_id, page_table[c.page_id]>> \in handles[t]
       THEN handles[t] \ {<<c.page_id, page_table[c.page_id]>>}
       ELSE handles[t] \ {CHOOSE h \in handles[t] : h[1] = c.page_id}
  ELSE handles[t]

\* operation c of thread t, which holds latch_ and can have the frame latch
\* it asks for, from there to its return
Body(t, c) ==
  /\ \/ c.op = "fetch" /\ FetchPgImp(c.page_id)
     \/ c.op = "unpin" /\ UnpinPgImp(c.page_id, c.is_dirty)
     \/ c.op = "flush" /\ FlushPgImp(c.page_id)
  /\ handles' = [handles EXCEPT ![t] = HandlesAfter(t, c)]
  /\ latch_' = NoThread
  /\ pc' = [pc EXCEPT ![t] = Idle]
  /\ UNCHANGED <<rwlatch_, others>>

\* thread t calls an operation that finds latch_ and the frame latch it
\* asks for free: it runs to its return
Invoke(t, c) ==
  /\ pc[t].at = "idle"
  /\ MayInvoke(t, c)
  /\ latch_ = NoThread
  /\ WithinPins(c)
  /\ c.op # "flush_all"
  /\ Blockers(c) = {}
  /\ Body(t, c)

\* thread t calls an operation that finds latch_ free and then has to wait
\* for a frame latch: it stays inside, holding latch_
Enter(t, c) ==
  /\ pc[t].at = "idle"
  /\ MayInvoke(t, c)
  /\ latch_ = NoThread
  /\ WithinPins(c)
  /\ c.op # "flush_all"
  /\ Blockers(c) # {}
  /\ latch_' = t
  /\ pc' = [pc EXCEPT ![t] = [c EXCEPT !.at = "run"]]
  /\ UNCHANGED <<pool, last, holds, written, rwlatch_, handles, others>>

\* thread t calls an operation while another thread holds latch_: the
\* std::lock_guard makes it wait
Wait(t, c) ==
  /\ pc[t].at = "idle"
  /\ MayInvoke(t, c)
  /\ latch_ # NoThread
  /\ pc' = [pc EXCEPT ![t] = c]
  /\ UNCHANGED <<pool, last, holds, written, latch_, rwlatch_, handles, others>>

\* a waiting thread gets latch_ and finds the frame latch it asks for free:
\* it runs to its return
Lock(t) ==
  /\ pc[t].at = "lock"
  /\ latch_ = NoThread
  /\ WithinPins(pc[t])
  /\ Blockers(pc[t]) = {}
  /\ Body(t, pc[t])

\* a waiting thread gets latch_ and then has to wait for a frame latch
LockAndWait(t) ==
  /\ pc[t].at = "lock"
  /\ latch_ = NoThread
  /\ WithinPins(pc[t])
  /\ Blockers(pc[t]) # {}
  /\ latch_' = t
  /\ pc' = [pc EXCEPT ![t].at = "run"]
  /\ UNCHANGED <<pool, last, holds, written, rwlatch_, handles, others>>

\* thread t, inside an operation other than flush_all, gets the frame latch
\* the operation asks for, runs it and returns
Run(t) ==
  /\ pc[t].at = "run"
  /\ pc[t].op # "flush_all"
  /\ Blockers(pc[t]) = {}
  /\ Body(t, pc[t])

RECURSIVE FlushUntilHeld(_, _, _, _)
\* the loop of lines 74-82 from frame i up to the first dirty frame whose
\* latch is held (or to the end): <<pages, disk, WritePage calls, frame
\* reached>>
FlushUntilHeld(i, pg, d, w) ==
  IF i >= PoolSize THEN <<pg, d, w, i>>
  ELSE IF ~FlushNeeded(pg[i]) THEN FlushUntilHeld(i + 1, pg, d, w)
  ELSE IF Holders(i, "W") # {} THEN <<pg, d, w, i>>
  ELSE FlushUntilHeld(i + 1, [pg EXCEPT ![i].is_dirty = FALSE],
                      WritePage(d, pg[i].page_id, pg[i].data),
                      Append(w, <<pg[i].page_id, pg[i].data>>))

\* flush_all of thread t, holding latch_, from frame c.i on: it returns
\* after the last frame, or stays inside at a frame whose latch is held
FlushAllFrom(t, c) ==
  LET r == FlushUntilHeld(c.i, pages, disk, IF c.i = 0 THEN <<>> ELSE written)
  IN /\ pages' = r[1]
     /\ disk' = r[2]
     /\ written' = r[3]
     /\ IF r[4] >= PoolSize
        THEN /\ pc' = [pc EXCEPT ![t] = Idle]
             /\ latch_' = NoThread
             /\ last' = Call("flush_all", INVALID_PAGE_ID, FALSE, TRUE, NoFrame)
        ELSE /\ pc' = [pc EXCEPT ![t] = [c EXCEPT !.at = "run", !.i = r[4]]]
             /\ latch_' = t
             /\ UNCHANGED last
     /\ UNCHANGED <<page_table, free_list, replacer, next_page_id, holds, rwlatch_, handles, others>>

\* thread t calls flush_all and finds latch_ free
InvokeFlushAll(t) ==
  /\ pc[t].at = "idle"
  /\ latch_ = NoThread
  /\ \A f \in Frames : ~HoldsLatch(t, f)
  /\ FlushAllFrom(t, [Idle EXCEPT !.op = "flush_all"])

\* thread t, inside flush_all, gets the frame latch it waited for and goes on
FlushAllStep(t) ==
  /\ pc[t].at = "run"
  /\ pc[t].op = "flush_all"
  /\ Blockers(pc[t]) = {}
  /\ FlushAllFrom(t, pc[t])

\* a thread that is in no call takes the latch of a frame it holds a
\* pointer to (Page::RLatch / Page::WLatch), one latch at a time
CallerLatch(t, f, mode) ==
  /\ pc[t].at = "idle"
  /\ \E h \in handles[t] : h[2] = f
  /\ \A g \in Frames : ~HoldsLatch(t, g)
  /\ Holders(f, mode) = {}
  /\ rwlatch_' = IF mode = "W" THEN [rwlatch_ EXCEPT ![f].writer = t]
                 ELSE [rwlatch_ EXCEPT ![f].readers = @ \cup {t}]
  /\ UNCHANGED <<pool, last, holds, written, latch_, pc, handles, others>>

\* Page::RUnlatch / Page::WUnlatch
CallerUnlatch(t, f) ==
  /\ pc[t].at = "idle"
  /\ HoldsLatch(t, f)
  /\ rwlatch_' = [rwlatch_ EXCEPT ![f] = [writer |-> IF @.writer = t THEN NoThread ELSE @.writer,
                                          readers |-> @.readers \ {t}]]
  /\ UNCHANGED <<pool, last, holds, written, latch_, pc, handles, others>>

NextConc ==
  \/ \E t \in Threads, c \in Requests : Invoke(t, c)
  \/ \E t \in Threads, c \in Requests : Enter(t, c)
  \/ \E t \in Threads : InvokeFlushAll(t)
  \/ \E t \in Threads, c \in Requests : Wait(t, c)
  \/ \E t \in Threads : Lock(t)
  \/ \E t \in Threads : LockAndWait(t)
  \/ \E t \in Threads : Run(t)
  \/ \E t \in Threads : FlushAllStep(t)
  \/ \E t \in Threads, f \in Frames, mode \in {"R", "W"} : CallerLatch(t, f, mode)
  \/ \E t \in Threads, f \in Frames : CallerUnlatch(t, f)

SpecConc == Init /\ [][NextConc]_vars

\* thread a cannot go on before thread b gives a lock back
WaitsFor(a, b) ==
  \/ pc[a].at = "lock" /\ latch_ = b
  \/ pc[a].at = "run" /\ b \in Blockers(pc[a])

TypeOK ==
  /\ \A f \in Frames : pages[f].page_id \in PageIds \cup {INVALID_PAGE_ID}
  /\ DOMAIN page_table \subseteq PageIds
  /\ \A p \in DOMAIN page_table : page_table[p] \in Frames
  /\ SeqSet(free_list) \subseteq Frames
  /\ SeqSet(replacer) \subseteq Frames

\* ------------------------------------------------------------ vocabulary
InFreeList(f) == f \in SeqSet(free_list)

Mapped(f) == \E p \in DOMAIN page_table : page_table[p] = f

Tracked(f) == f \in SeqSet(replacer)

Resident(p) == p \in DOMAIN page_table

BoolToNat(b) == IF b THEN 1 ELSE 0

\* ------------------------------------------------------------------- C1
\* C1: every frame is in exactly one of: the free list; mapped by the page
\* table with pin_count > 0; mapped by the page table and tracked by the
\* replacer.
C1_FrameInExactlyOnePlace ==
  \A f \in Frames :
    BoolToNat(InFreeList(f))
      + BoolToNat(Mapped(f) /\ pages[f].pin_count > 0)
      + BoolToNat(Mapped(f) /\ Tracked(f)) = 1

\* ------------------------------------------------------------------- C2
\* C2: a frame is tracked by the replacer iff some page-table entry maps to
\* it and its pin_count is 0.
C2_TrackedIffMappedUnpinned ==
  \A f \in Frames : Tracked(f) <=> (Mapped(f) /\ pages[f].pin_count = 0)

\* ------------------------------------------------------------------- C3
\* C3: every page-table entry P -> f points to a frame whose page_id field
\* is P, and no two keys map to the same frame.
C3_TableMatchesFrames ==
  /\ \A p \in DOMAIN page_table : pages[page_table[p]].page_id = p
  /\ \A p, q \in DOMAIN page_table : page_table[p] = page_table[q] => p = q

\* a frame that held another mapped page has been handed to a new page
C3_Witness ==
  /\ last.op \in {"new", "fetch"}
  /\ last.victim # NoFrame
  /\ Resident(last.page_id)
  /\ page_table[last.page_id] = last.victim
  /\ Cardinality(DOMAIN page_table) = PoolSize

\* ------------------------------------------------------------------- C4
\* C4: pin_count of every frame is >= 0 in every state, and unpin of a
\* resident page whose pin_count is 0 returns false without decrementing.
C4_PinCountNeverNegative ==
  /\ [](\A f \in Frames : pages[f].pin_count >= 0)
  /\ [][\A p \in PageIds :
          (/\ Resident(p)
           /\ pages[page_table[p]].pin_count = 0
           /\ last'.op = "unpin"
           /\ last'.page_id = p)
          => (~last'.ret /\ pages'[page_table[p]].pin_count = 0)]_vars

\* a double unpin has just been rejected
C4_Witness ==
  /\ last.op = "unpin"
  /\ ~last.ret
  /\ Resident(last.page_id)
  /\ pages[page_table[last.page_id]].pin_count = 0

\* ------------------------------------------------------------------- C5
\* C5: a frame is tracked by the replacer (and so can be picked as victim)
\* only when every handle handed out on it since its page was loaded (the
\* load plus every fetch hit) has been given back by a successful unpin, and
\* a mapped frame with no handle outstanding is tracked.
C5_TrackedOnlyAfterAllUnpins ==
  \A f \in Frames :
    /\ Tracked(f) => holds[f] = 0
    /\ (Mapped(f) /\ holds[f] = 0) => Tracked(f)

\* a page obtained twice has been unpinned once and is not yet evictable
C5_Witness ==
  /\ last.op = "unpin"
  /\ last.ret
  /\ Resident(last.page_id)
  /\ holds[page_table[last.page_id]] = 1
  /\ pages[page_table[last.page_id]].pin_count = 1
  /\ ~Tracked(page_table[last.page_id])

\* ------------------------------------------------------------------- C6
\* C6: the frame that fetch or new_page gets from Victim() has pin_count 0
\* when it is taken, and so has every frame that a new page or a fetch miss
\* is loaded into.
C6_VictimIsUnpinned ==
  [][/\ last'.victim # NoFrame => pages[last'.victim].pin_count = 0
     /\ (/\ last'.op \in {"new", "fetch"}
         /\ last'.ret
         /\ ~(last'.op = "fetch" /\ Resident(last'.page_id)))
        => pages[page_table'[last'.page_id]].pin_count = 0]_vars

\* a victim has just been evicted while another frame stays pinned
C6_Witness ==
  /\ last.op \in {"new", "fetch"}
  /\ last.victim # NoFrame
  /\ \E f \in Frames : f # last.victim /\ pages[f].pin_count > 0

\* ------------------------------------------------------------------- C7
\* C7: new_page called with an empty free list and an empty replacer returns
\* none, and a new_page that returns none leaves the pages, the page table,
\* the free list, the replacer, the disk and next_page_id unchanged.
C7_FailedNewPageIsNoOp ==
  [][/\ (last'.op = "new" /\ free_list = <<>> /\ replacer = <<>>) => ~last'.ret
     /\ (last'.op = "new" /\ ~last'.ret) => pool' = pool]_vars

\* new_page has just failed on a pool whose frames are all pinned
C7_Witness ==
  /\ last.op = "new"
  /\ ~last.ret
  /\ free_list = <<>>
  /\ replacer = <<>>
  /\ \A f \in Frames : pages[f].pin_count > 0

C9_UnpinKeepsDirty ==
  [][\A f \in Frames :
       (pages[f].is_dirty /\ ~pages'[f].is_dirty)
       => \/ last'.op \in {"flush", "flush_all", "delete"}
          \/ (last'.op \in {"new", "fetch"} /\ last'.victim = f)]_vars

\* unpin(P, false) has just returned on a page that is still dirty
C9_Witness ==
  /\ last.op = "unpin"
  /\ ~last.is_dirty
  /\ last.ret
  /\ Resident(last.page_id)
  /\ pages[page_table[last.page_id]].is_dirty

\* ------------------------------------------------------------------ C10
\* C10: unpin(P, true) on a resident page whose pin_count is 0 returns false
\* and leaves the frame's dirty flag and all other pool state unchanged.
C10_RejectedUnpinIsNoOp ==
  [][\A p \in PageIds :
       (/\ Resident(p)
        /\ pages[page_table[p]].pin_count = 0
        /\ last'.op = "unpin"
        /\ last'.page_id = p
        /\ last'.is_dirty)
       => (~last'.ret /\ pool' = pool)]_vars

\* ------------------------------------------------------------------ C11
\* C11: delete of a resident page whose pin_count is > 0 returns false and
\* leaves the pages (bytes, dirty flags, pin counts), the page table, the
\* free list, the replacer, the disk and next_page_id unchanged.
C11_DeletePinnedIsNoOp ==
  [][\A p \in PageIds :
       (/\ Resident(p)
        /\ pages[page_table[p]].pin_count > 0
        /\ last'.op = "delete"
        /\ last'.page_id = p)
       => (~last'.ret /\ pool' = pool)]_vars

\* delete has just been refused on a pinned, dirty page
C11_Witness ==
  /\ last.op = "delete"
  /\ ~last.ret
  /\ Resident(last.page_id)
  /\ pages[page_table[last.page_id]].pin_count > 0
  /\ pages[page_table[last.page_id]].is_dirty

\* ------------------------------------------------------------------ C12
\* C12: delete of a resident page with pin_count 0 returns true and
\* afterwards the page has no page-table entry and its former frame is in
\* the free list, not tracked by the replacer and not dirty; delete of a
\* page that is not resident returns true and changes no pool state.
C12_DeleteFreesFrame ==
  [][\A p \in PageIds :
       (last'.op = "delete" /\ last'.page_id = p)
       => /\ (Resident(p) /\ pages[page_table[p]].pin_count = 0)
             => /\ last'.ret
                /\ p \notin DOMAIN page_table'
                /\ page_table[p] \in SeqSet(free_list')
                /\ page_table[p] \notin SeqSet(replacer')
                /\ ~pages'[page_table[p]].is_dirty
          /\ ~Resident(p) => (last'.ret /\ pool' = pool)]_vars

\* an unpinned resident page has just been deleted: its frame, still
\* carrying the page's id, is at the back of the free list
C12_Witness ==
  /\ last.op = "delete"
  /\ last.ret
  /\ ~Resident(last.page_id)
  /\ \E f \in Frames : /\ InFreeList(f)
                       /\ pages[f].page_id = last.page_id
                       /\ free_list[Len(free_list)] = f

\* ------------------------------------------------------------------ C13
\* C13: every frame in the free list has page_id = none (INVALID_PAGE_ID),
\* pin_count 0 and a clear dirty flag.
C13_FreeFramesAreReset ==
  \A f \in Frames :
    InFreeList(f) => /\ pages[f].page_id = INVALID_PAGE_ID
                     /\ pages[f].pin_count = 0
                     /\ ~pages[f].is_dirty

\* ------------------------------------------------------------------ C14
\* C14: flush(P) of a page that is not resident returns false and makes no
\* disk write; of a resident clean page returns true and makes no disk
\* write; of a resident dirty page makes exactly one disk write, of the
\* frame's bytes under id P, clears the dirty flag and returns true.  In all
\* three cases every pin_count, the bytes of every frame, the page table,
\* the free list and the replacer are unchanged.
C14_FlushWritesDirtyBytes ==
  [][\A p \in PageIds :
       (last'.op = "flush" /\ last'.page_id = p)
       => /\ ~Resident(p) => (~last'.ret /\ written' = <<>> /\ disk' = disk /\ pages' = pages)
          /\ (Resident(p) /\ ~pages[page_table[p]].is_dirty)
             => (last'.ret /\ written' = <<>> /\ disk' = disk /\ pages' = pages)
          /\ (Resident(p) /\ pages[page_table[p]].is_dirty)
             => /\ last'.ret
                /\ written' = <<(<<p, pages[page_table[p]].data>>)>>
                /\ disk' = [disk EXCEPT ![p] = pages[page_table[p]].data]
                /\ pages' = [pages EXCEPT ![page_table[p]].is_dirty = FALSE]
          /\ page_table' = page_table
          /\ free_list' = free_list
          /\ replacer' = replacer
          /\ next_page_id' = next_page_id]_vars

\* a pinned dirty page holding bytes stored by its caller has just been
\* flushed
C14_Witness ==
  /\ last.op = "flush"
  /\ last.ret
  /\ Resident(last.page_id)
  /\ pages[page_table[last.page_id]].pin_count > 0
  /\ written = <<(<<last.page_id, 1>>)>>
  /\ disk[last.page_id] = 1
  /\ ~pages[page_table[last.page_id]].is_dirty

\* ------------------------------------------------------------------ C15
\* C15: after flush_all() returns no resident frame is dirty and, for every
\* resident page, pinned or not, the disk copy equals the frame's bytes;
\* frames in the free list cause no disk write.  The equality is asked only
\* of the pages whose dirty flag told the truth before the call (the frame
\* was dirty, or its bytes already equalled the disk copy): bytes a caller
\* has stored but not yet reported by unpin(P, true) are not flush_all's to
\* write.
C15_FlushAllWritesEveryResident ==
  [][last'.op = "flush_all"
     => /\ \A p \in DOMAIN page_table' :
             /\ ~pages'[page_table'[p]].is_dirty
             /\ (pages[page_table[p]].is_dirty \/ disk[p] = pages[page_table[p]].data)
                => disk'[p] = pages'[page_table'[p]].data
        /\ \A i \in 1 .. Len(written') :
             \E f \in Frames : /\ ~InFreeList(f)
                                /\ written'[i] = <<pages[f].page_id, pages[f].data>>]_vars

\* ------------------------------------------------------------------ C16
\* C16: round trip through eviction.  If page P held bytes B when it was
\* unpinned with is_dirty = true, and every frame that held P has since been
\* reused, a fetch(P) that misses returns a frame whose bytes equal B; and a
\* fetch miss or new_page that reuses a dirty frame writes that frame's bytes
\* to disk under that frame's page id.
C16_RoundTripThroughEviction ==
  [][/\ \A p \in PageIds :
          (/\ last'.op = "fetch" /\ last'.page_id = p /\ last'.ret
           /\ ~Resident(p)
           /\ \A f \in Frames : pages[f].page_id # p
           /\ saved[p] # {})
          => pages'[page_table'[p]].data \in saved[p]
     /\ \A f \in Frames :
          (/\ last'.op \in {"fetch", "new"} /\ last'.ret
           /\ ~(last'.op = "fetch" /\ Resident(last'.page_id))
           /\ page_table'[last'.page_id] = f
           /\ pages[f].is_dirty)
          => written' = <<(<<pages[f].page_id, pages[f].data>>)>>]_vars

\* ------------------------------------------------------------------ C17
\* C17: for the instance with shard index i of NumInstances, the k-th
\* successful new_page returns id i + (k-1) * NumInstances; every id it
\* returns is congruent to i modulo NumInstances, and the ids it returns are
\* strictly increasing.
C17_IdsFollowShard ==
  \A i \in Instances :
    /\ \A k \in 1 .. Len(allocated[i]) :
         /\ allocated[i][k] = i + (k - 1) * NumInstances
         /\ allocated[i][k] % NumInstances = i
    /\ \A k \in 1 .. Len(allocated[i]) - 1 : allocated[i][k] < allocated[i][k + 1]

\* an instance whose frames are all in use has just handed out its third
\* id, from an evicted frame, after a failed try on the other instance
C17_Witness ==
  /\ plast.op = "new"
  /\ plast.ret
  /\ Len(plast.tried) = 2
  /\ \E i \in Instances :
       /\ Len(allocated[i]) = PoolSize + 1
       /\ allocated[i][PoolSize + 1] = plast.page_id

\* ------------------------------------------------------------------ C18
\* C18: after every call of the parallel manager's new_page (success on the
\* first instance tried, success on a later one, failure on all) the cursor
\* next_index_ is one position further, modulo NumInstances, than before
\* the call.
C18_CursorAdvancesByOne ==
  [][plast'.op = "new" => next_index_' = (next_index_ + 1) % NumInstances]_vars

\* ------------------------------------------------------------------ C19
\* C19: a call of the parallel manager's new_page asks the instances in
\* cursor order, each at most once, stops at the first that succeeds, and
\* returns none only if each of the NumInstances instances failed during
\* the call.
C19_TriesInCursorOrder ==
  [][plast'.op = "new"
     => LET t == plast'.tried
        IN /\ Len(t) \in 1 .. NumInstances
           /\ \A k \in 1 .. Len(t) : t[k].inst = (next_index_ + k - 1) % NumInstances
           /\ \A k \in 1 .. Len(t) - 1 : ~t[k].ok
           /\ plast'.ret <=> t[Len(t)].ok
           /\ ~plast'.ret => /\ Len(t) = NumInstances
                             /\ {t[k].inst : k \in 1 .. Len(t)} = Instances
           /\ \A k \in 1 .. Len(t) :
                t[k].ok <=> (\/ instances_[t[k].inst].free_list # <<>>
                             \/ instances_[t[k].inst].replacer # <<>>)]_vars

\* new_page has just failed after asking instance 1 and then, wrapping
\* around, instance 0
C19_Witness ==
  /\ plast.op = "new"
  /\ ~plast.ret
  /\ Len(plast.tried) = NumInstances
  /\ plast.tried[1].inst = 1
  /\ plast.tried[NumInstances].inst = 0

\* ------------------------------------------------------------------ C20
\* C20: every page id P that the parallel manager's new_page returns was
\* created by instances_[P mod NumInstances], the instance that fetch, unpin,
\* flush and delete of P are routed to, where P is resident and pinned; so
\* unpin(P) issued right after new_page returned P succeeds, fetch(P) finds
\* P resident, flush(P) succeeds and delete(P) is refused.
C20_RoutedToCreator ==
  /\ [](plast.op = "new" /\ plast.ret
        => LET P == plast.page_id
               b == instances_[GetBufferPoolManager(P)]
           IN /\ plast.tried[Len(plast.tried)].inst = P % NumInstances
              /\ GetBufferPoolManager(P) = P % NumInstances
              /\ P \in DOMAIN b.page_table
              /\ b.pages[b.page_table[P]].page_id = P
              /\ b.pages[b.page_table[P]].pin_count = 1)
  /\ [][(/\ plast.op = "new" /\ plast.ret
         /\ plast'.page_id = plast.page_id
         /\ plast'.op \in {"unpin", "flush", "delete"})
        => (plast'.ret <=> plast'.op # "delete")]_vars
  /\ [][\A P \in ParPageIds :
          (/\ Created(P)
           /\ P \in DOMAIN instances_[P % NumInstances].page_table
           /\ plast'.op = "fetch" /\ plast'.page_id = P)
          => /\ plast'.ret
             /\ instances_'[P % NumInstances].page_table = instances_[P % NumInstances].page_table
             /\ instances_'[P % NumInstances].pages[instances_[P % NumInstances].page_table[P]].pin_count
                  = instances_[P % NumInstances].pages[instances_[P % NumInstances].page_table[P]].pin_count + 1]_vars

\* a page of instance 1 has been unpinned right after new_page returned it
\* and then fetched again from the frame it was created in
C20_Witness ==
  /\ plast.op = "fetch"
  /\ plast.ret
  /\ plast.page_id % NumInstances = 1
  /\ Created(plast.page_id)
  /\ LET b == instances_[1]
     IN /\ plast.page_id \in DOMAIN b.page_table
        /\ b.pages[b.page_table[plast.page_id]].pin_count = 1
        /\ b.replacer = <<>>

\* ------------------------------------------------------------------ C21
\* the states of the scenario on a pool of two frames: as constructed;
\* after fetch(1); after fetch(2); after unpin(1, false)
C21_FreePage == [page_id |-> INVALID_PAGE_ID, pin_count |-> 0, is_dirty |-> FALSE, data |-> 0]

C21_Loaded(page_id, pin) ==
  [page_id |-> page_id, pin_count |-> pin, is_dirty |-> FALSE, data |-> ReadPage(disk, page_id)]

C21_Fresh ==
  /\ pages = [f \in Frames |-> C21_FreePage]
  /\ page_table = EmptyTable
  /\ free_list = <<0, 1>>
  /\ replacer = <<>>
  /\ next_page_id = instance_index_

C21_AfterFetch1 ==
  /\ pages = [f \in Frames |-> IF f = 0 THEN C21_Loaded(1, 1) ELSE C21_FreePage]
  /\ page_table = Insert(EmptyTable, 1, 0)
  /\ free_list = <<1>>
  /\ replacer = <<>>
  /\ next_page_id = instance_index_

C21_AfterFetch2 ==
  /\ pages = [f \in Frames |-> IF f = 0 THEN C21_Loaded(1, 1) ELSE C21_Loaded(2, 1)]
  /\ page_table = Insert(Insert(EmptyTable, 1, 0), 2, 1)
  /\ free_list = <<>>
  /\ replacer = <<>>
  /\ next_page_id = instance_index_

C21_AfterUnpin1 ==
  /\ pages = [f \in Frames |-> IF f = 0 THEN C21_Loaded(1, 0) ELSE C21_Loaded(2, 1)]
  /\ page_table = Insert(Insert(EmptyTable, 1, 0), 2, 1)
  /\ free_list = <<>>
  /\ LRU_Size(replacer) = 1
  /\ next_page_id = instance_index_

\* the five steps of the scenario, the last new_page() returning id new_id
C21_Steps(new_id) ==
  PoolSize = 2 =>
    /\ (C21_Fresh /\ last'.op = "fetch" /\ last'.page_id = 1)
       => (last'.ret /\ pages'[page_table'[1]].pin_count = 1 /\ C21_AfterFetch1')
    /\ (C21_AfterFetch1 /\ last'.op = "fetch" /\ last'.page_id = 2)
       => (last'.ret /\ pages'[page_table'[2]].pin_count = 1 /\ C21_AfterFetch2')
    /\ (C21_AfterFetch2 /\ last'.op = "new")
       => (~last'.ret /\ C21_AfterFetch2')
    /\ (C21_AfterFetch2 /\ last'.op = "unpin" /\ last'.page_id = 1 /\ ~last'.is_dirty)
       => (last'.ret /\ C21_AfterUnpin1')
    /\ (C21_AfterUnpin1 /\ last'.op = "new")
       => /\ last'.ret
          /\ last'.page_id = new_id
          /\ last'.page_id \in DOMAIN page_table'
          /\ page_table'[last'.page_id] = page_table[1]
          /\ 1 \notin DOMAIN page_table'
          /\ written' = <<>>
          /\ disk' = disk
          /\ pages'[page_table[1]].pin_count = 1
          /\ pages'[page_table[1]].page_id = last'.page_id

\* C21 as stated: on a fresh single-shard instance with pool size 2,
\* fetch(1) and fetch(2) each succeed with pin_count 1; new_page() then
\* fails; unpin(1, false) makes the replacer size 1; the next new_page()
\* succeeds, reuses the frame that held page 1 without a disk write, and
\* returns new page id 3 with pin_count 1.
C21_ScenarioReturnsId3 == [][C21_Steps(3)]_vars

\* C21 as amended: the same scenario, whose last new_page() returns page
\* id 0, the first id of the instance's counter (the failed new_page()
\* consumed none, and fetch allocates none).
C21_ScenarioReturnsId0 == [][C21_Steps(instance_index_)]_vars

\* the scenario has just ended: page 0 sits in the frame that held page 1,
\* page 2 is still pinned in the other frame
C21_Witness ==
  /\ PoolSize = 2
  /\ last.op = "new"
  /\ last.ret
  /\ last.page_id = 0
  /\ last.victim = 0
  /\ pages = [f \in Frames |-> IF f = 0 THEN [C21_FreePage EXCEPT !.page_id = 0, !.pin_count = 1]
                               ELSE C21_Loaded(2, 1)]
  /\ page_table = Insert(Insert(EmptyTable, 0, 0), 2, 1)
  /\ free_list = <<>>
  /\ replacer = <<>>
  /\ next_page_id = 1

\* ------------------------------------------------------------------ C22
\* C22: Victim() on a replacer that tracks at least one frame removes and
\* returns the tracked frame whose adding Unpin call is the oldest among the
\* frames tracked now, and the size goes down by one; on an empty replacer
\* it returns false and changes nothing.  So successive victims come out in
\* the order the frames were tracked, without the frames untracked since.
C22_VictimIsOldestTracked ==
  /\ [](SeqSet(track_order) = SeqSet(replacer) /\ Len(track_order) = LRU_Size(replacer))
  /\ [][rlast'.op = "victim"
        => IF LRU_Size(replacer) > 0
           THEN /\ rlast'.ret
                /\ rlast'.frame_id = Head(track_order)
                /\ SeqSet(replacer') = SeqSet(replacer) \ {Head(track_order)}
                /\ LRU_Size(replacer') = LRU_Size(replacer) - 1
                /\ track_order' = Tail(track_order)
           ELSE /\ ~rlast'.ret
                /\ replacer' = replacer]_vars

\* Victim() has just returned the older of two tracked frames, which has
\* the larger id, and the younger one is still tracked
C22_Witness ==
  /\ rlast.op = "victim"
  /\ rlast.ret
  /\ LRU_Size(replacer) = 1
  /\ rlast.frame_id > replacer[1]
  /\ track_order = replacer

C24_OverflowBranchNeverTaken ==
  /\ [](LRU_Size(replacer) <= PoolSize)
  /\ [][/\ replacer' # replacer /\ last'.op = "unpin" => LRU_Size(replacer) < capacity_
        /\ \A f \in Frames :
             (Tracked(f) /\ f \notin SeqSet(replacer'))
             => \/ last'.op \in {"new", "fetch"} /\ last'.victim = f
                \/ /\ last'.op \in {"fetch", "delete"}
                   /\ Resident(last'.page_id)
                   /\ page_table[last'.page_id] = f]_vars

\* unpin has just made the last frame of the pool evictable: the replacer
\* is as large as the pool
C24_Witness ==
  /\ last.op = "unpin"
  /\ last.ret
  /\ LRU_Size(replacer) = PoolSize
  /\ replacer[1] = page_table[last.page_id]

\* ------------------------------------------------------------------ C25
\* C25: a pin can always be released.  If a handle on page P, obtained by a
\* successful fetch or new_page, has not been given back yet, unpin(P, .)
\* returns true, whatever calls were made in between.
C25_HeldPageCanBeUnpinned ==
  [][\A p \in PageIds :
       (/\ last'.op = "unpin"
        /\ last'.page_id = p
        /\ \E f \in Frames : pages[f].page_id = p /\ holds[f] > 0)
       => last'.ret]_vars

\* ------------------------------------------------------------------ C26
\* C26: a page has at most one in-memory copy.  No two frames outside the
\* free list hold the same page_id, and new_page never returns a page_id
\* that is resident when it is called, also when callers have fetched ids
\* the instance has not allocated yet.
C26_OneCopyPerPage ==
  /\ [](\A f, g \in Frames :
          (/\ f # g
           /\ ~InFreeList(f)
           /\ ~InFreeList(g)
           /\ pages[f].page_id # INVALID_PAGE_ID)
          => pages[f].page_id # pages[g].page_id)
  /\ [][(last'.op = "new" /\ last'.ret) => ~Resident(last'.page_id)]_vars

\* ------------------------------------------------------------------ C27
\* C27: deadlock freedom.  With several threads calling the operations of
\* one instance, a thread possibly holding the latch of a frame it has
\* pinned while it calls unpin or fetch, and flush / flush_all / eviction
\* taking the frame's latch while they hold latch_, every call returns
\* under fair scheduling.  A call cannot return once its thread waits for a
\* lock held by a thread that waits for a lock the first one holds, so no
\* such pair of threads exists in any reachable state.
C27_NoWaitCycle ==
  \A a, b \in Threads : ~(a # b /\ WaitsFor(a, b) /\ WaitsFor(b, a))

====
